---- MODULE Spec2Model ----
(***************************************************************************)
(* Model of the board-game catalog scripts:                                *)
(*   scripts/add_game.py          (ImageOptimizer, EnhancedGameAdder)      *)
(*   scripts/v1-add_game - コピー.py (GameAdder)                              *)
(*   scripts/manage_games.py      (GameManager)                            *)
(* The state is the part of the disk the scripts read and write (the       *)
(* catalog file games.yml, its timestamped backups, the images directory   *)
(* and its backup sub-directory, the downloads directory), the wall clock, *)
(* and what the last invocation returned and printed.  One action is one   *)
(* invocation of one command, run from its first prompt to its return; for  *)
(* invocations that overlap, the load and the save of each are two steps.  *)
(***************************************************************************)
EXTENDS Integers, Sequences, FiniteSets, TLC

VARIABLES
    file,       \* docs/_data/games.yml: absent, or its content
    backups,    \* games.yml.backup.<timestamp>: timestamp -> content
    images,     \* docs/assets/images/<name>: name -> image attributes
    imgBackup,  \* docs/assets/images/backup/<name>: name -> image attributes
    imgTemp,    \* docs/assets/images/<name>.temp files left on disk
    downloads,  \* files under docs/downloads, by their rulesUrl/summaryUrl path
    magick,     \* whether the ImageMagick binary is installed
    now,        \* wall clock in whole seconds, the resolution of %Y%m%d_%H%M%S
    ops,        \* number of invocations so far
    last,       \* what the last invocation was given, returned and printed
    procs       \* the invocations that run side by side: where each is, and
                \* the catalog it holds in memory

vars ==
    <<file, backups, images, imgBackup, imgTemp, downloads, magick, now, ops, last, procs>>

-----------------------------------------------------------------------------
(* Bounds of the model.                                                    *)

\* the add wizards are not started on a catalog that already has this many records
MaxGames == 2
\* the clock stops after this many seconds
MaxTime == 1
\* a behaviour is this many invocations long
MaxOps == 1

-----------------------------------------------------------------------------
(* Strings are sequences of one-character strings, so that strip(), lower() *)
(* re.sub() and the regular expressions are computed, not assumed.         *)

Lowercase ==
    {"a", "b", "c", "d", "e", "f", "g", "h", "i", "j", "k", "l", "m",
     "n", "o", "p", "q", "r", "s", "t", "u", "v", "w", "x", "y", "z"}
Digits == {"0", "1", "2", "3", "4", "5", "6", "7", "8", "9"}

\* str.lower() on one character
Uppercase ==
    <<"A", "B", "C", "D", "E", "F", "G", "H", "I", "J", "K", "L", "M",
      "N", "O", "P", "Q", "R", "S", "T", "U", "V", "W", "X", "Y", "Z">>
LowercaseOf ==
    <<"a", "b", "c", "d", "e", "f", "g", "h", "i", "j", "k", "l", "m",
      "n", "o", "p", "q", "r", "s", "t", "u", "v", "w", "x", "y", "z">>
LowerChar(c) ==
    IF \E i \in DOMAIN Uppercase : Uppercase[i] = c
    THEN LowercaseOf[CHOOSE i \in DOMAIN Uppercase : Uppercase[i] = c]
    ELSE c

\* str.lower()
Lower(s) == [i \in 1..Len(s) |-> LowerChar(s[i])]

\* str.strip(): leading and trailing blanks removed
RECURSIVE LStrip(_)
LStrip(s) == IF s # <<>> /\ Head(s) = " " THEN LStrip(Tail(s)) ELSE s
RECURSIVE RStrip(_)
RStrip(s) == IF s # <<>> /\ s[Len(s)] = " " THEN RStrip(SubSeq(s, 1, Len(s) - 1)) ELSE s
Strip(s) == RStrip(LStrip(s))

\* str.replace(old, new) for one-character old and new
ReplaceChar(s, old, new) == [i \in 1..Len(s) |-> IF s[i] = old THEN new ELSE s[i]]

\* the characters of s that are in the set keep, in order
RECURSIVE KeepChars(_, _)
KeepChars(s, keep) ==
    IF s = <<>> THEN <<>>
    ELSE (IF Head(s) \in keep THEN <<Head(s)>> ELSE <<>>) \o KeepChars(Tail(s), keep)

\* str.isdigit()
IsDigit(s) == Len(s) > 0 /\ \A i \in 1..Len(s) : s[i] \in Digits

\* sub in s (substring test)
Contains(s, sub) ==
    \E i \in 0..(Len(s) - Len(sub)) : SubSeq(s, i + 1, i + Len(sub)) = sub

-----------------------------------------------------------------------------
(* Python values held in a record of the catalog, and YAML scalars.        *)

Str(s)  == [t |-> "str", v |-> s]
None    == [t |-> "null", v |-> <<>>]

\* dict.get(key) and dict.get(key, default)
Get(d, k)           == IF k \in DOMAIN d THEN d[k] ELSE None
GetOr(d, k, dflt)   == IF k \in DOMAIN d THEN d[k] ELSE dflt
\* d[key] = value
Put(d, k, val)      == (k :> val) @@ d
\* Python truthiness of a value of a record
Truthy(val)         == ~(val.t = "null" \/ (val.t = "str" /\ val.v = <<>>)
                          \/ (val.t = "int" /\ val.v = <<"0">>))

\* the type PyYAML's implicit resolver gives a plain (unquoted) scalar
ResolvePlain(text) ==
    IF Len(text) = 0 \/ text = <<"~">> THEN "null"
    ELSE IF Len(text) = 4 /\ Lower(text) = <<"n", "u", "l", "l">> THEN "null"
    ELSE IF IsDigit(text) THEN "int"
    ELSE "str"

\* a dump that never quotes
DumpScalarPlain(val) == [style |-> "plain", text |-> val.v]

\* yaml.dump of one value: a str that would resolve to another type is quoted
DumpScalar(val) ==
    [style |-> IF val.t = "str" /\ ResolvePlain(val.v) # "str" THEN "quoted" ELSE "plain",
     text  |-> val.v]

\* yaml.safe_load of one scalar: quoted is a str, plain goes through the resolver
LoadScalar(sc) ==
    LET resolved(t) == [t |-> t, v |-> IF t = "null" THEN <<>> ELSE sc.text]
    IN  IF sc.style = "quoted" THEN Str(sc.text) ELSE resolved(ResolvePlain(sc.text))

DumpGame(g) == [k \in DOMAIN g |-> DumpScalar(g[k])]
LoadGame(y) == [k \in DOMAIN y |-> LoadScalar(y[k])]

(* Contents of the catalog file.                                           *)
Absent   == [kind |-> "absent",  games |-> <<>>]   \* no file at the path
Garbage  == [kind |-> "garbage", games |-> <<>>]   \* text that is no YAML
EmptyDoc == [kind |-> "empty",   games |-> <<>>]   \* a file of zero bytes
Doc(ys)  == [kind |-> "doc",     games |-> ys]     \* games: followed by the records

\* Path.exists()
Exists(f) == f.kind # "absent"

\* yaml.safe_load(f): raises on text that is no YAML, None on an empty file
yaml_safe_load(f) ==
    CASE f.kind = "garbage" -> [exc |-> TRUE,  none |-> FALSE, games |-> <<>>]
      [] f.kind = "empty"   -> [exc |-> FALSE, none |-> TRUE,  games |-> <<>>]
      [] OTHER              -> [exc |-> FALSE, none |-> FALSE,
                                games |-> [i \in 1..Len(f.games) |-> LoadGame(f.games[i])]]

\* yaml.dump(data, f, allow_unicode=True, default_flow_style=False, sort_keys=False)
yaml_dump(data) == Doc([i \in 1..Len(data.games) |-> DumpGame(data.games[i])])

\* {'games': []}
EmptyCatalog == [games |-> <<>>]

-----------------------------------------------------------------------------
(* Catalog store.  The three scripts carry their own copy of load and save. *)

\* the timestamps a backup file name can carry
Timestamps == 0..MaxTime

\* what goes wrong inside save: nothing, the copy to the backup path raises,
\* open(path, 'w') raises, or the write raises after open() has truncated the
\* file (nothing flushed, or a part of the text flushed)
SaveFaults == {"none", "copy", "open", "write_empty", "write_partial"}

\* a load without the try block
LoadUnguarded(f) ==
    LET got(r) == [raised |-> r.exc,
                   data |-> IF r.none THEN EmptyCatalog ELSE [games |-> r.games]]
    IN  IF ~Exists(f) THEN [raised |-> FALSE, data |-> EmptyCatalog]
        ELSE got(yaml_safe_load(f))

\* GameManager.load_games_data
GameManager_load_games_data(f) ==
    LET got(r) == IF r.exc THEN [raised |-> FALSE, data |-> EmptyCatalog]
                  ELSE [raised |-> FALSE,
                        data |-> IF r.none THEN EmptyCatalog ELSE [games |-> r.games]]
    IN  IF ~Exists(f) THEN [raised |-> FALSE, data |-> EmptyCatalog]
        ELSE got(yaml_safe_load(f))

\* EnhancedGameAdder.load_games_data
EnhancedGameAdder_load_games_data(f) ==
    LET got(r) == IF r.exc THEN [raised |-> FALSE, data |-> EmptyCatalog]
                  ELSE [raised |-> FALSE,
                        data |-> IF r.none THEN EmptyCatalog ELSE [games |-> r.games]]
    IN  IF Exists(f) THEN got(yaml_safe_load(f))
        ELSE [raised |-> FALSE, data |-> EmptyCatalog]

\* GameAdder.load_games_data
GameAdder_load_games_data(f) ==
    LET got(data) == IF data.exc THEN [raised |-> FALSE, data |-> EmptyCatalog]
                     ELSE [raised |-> FALSE,
                           data |-> IF data.none THEN EmptyCatalog
                                    ELSE [games |-> data.games]]
    IN  IF Exists(f) THEN got(yaml_safe_load(f))
        ELSE [raised |-> FALSE, data |-> EmptyCatalog]

\* a save that overwrites without the copy
SaveBodyNoBackup(f, bk, t, data, fault) ==
    IF fault \in {"open", "write_empty", "write_partial"}
    THEN [ok |-> FALSE, file |-> f, backups |-> bk]
    ELSE [ok |-> TRUE, file |-> yaml_dump(data), backups |-> bk]

\* the body of save_games_data, the same statements in the three scripts:
\* copy the existing file to .yml.backup.<timestamp>, then open and dump
SaveBody(f, bk, t, data, fault) ==
    LET copied == IF Exists(f) THEN [bk EXCEPT ![t] = f] ELSE bk
    IN  IF Exists(f) /\ fault = "copy" THEN [ok |-> FALSE, file |-> f, backups |-> bk]
        ELSE IF fault = "open" THEN [ok |-> FALSE, file |-> f, backups |-> copied]
        ELSE IF fault = "write_empty" THEN [ok |-> FALSE, file |-> EmptyDoc, backups |-> copied]
        ELSE IF fault = "write_partial" THEN [ok |-> FALSE, file |-> Garbage, backups |-> copied]
        ELSE [ok |-> TRUE, file |-> yaml_dump(data), backups |-> copied]

\* GameManager.save_games_data
GameManager_save_games_data(f, bk, t, data, fault) == SaveBody(f, bk, t, data, fault)

\* a save by the image-aware add script that keeps no copy of the old file
EnhancedSaveKeepsNothing(f, bk, t, data, fault) == SaveBodyNoBackup(f, bk, t, data, fault)

\* EnhancedGameAdder.save_games_data
EnhancedGameAdder_save_games_data(f, bk, t, data, fault) == SaveBody(f, bk, t, data, fault)

\* GameAdder.save_games_data
GameAdder_save_games_data(f, bk, t, data, fault) == SaveBody(f, bk, t, data, fault)

-----------------------------------------------------------------------------
(* ImageOptimizer (add_game.py).  An image file is its byte size and the   *)
(* width and height that "magick identify" reports for it.                 *)

\* self.settings
TargetWidth  == 400
TargetHeight == 600
MaxFileSize  == 200 * 1024

Image(size, w, h) == [size |-> size, w |-> w, h |-> h]

\* os.path.exists(image_path)
ImageExists(imgs, name) == name \in DOMAIN imgs

\* how the transform "magick ... -resize 400x600> -quality 85 temp" can end:
\* exit 0 with the output written, a non-zero exit, or the 30 s timeout
TransformOutcomes == {"ok", "fail", "timeout"}

\* and an exit 0 that has written no output
ImageOutcomes == TransformOutcomes \cup {"no_output"}

\* the ImageMagick of the machine: installed and working; no "magick" binary
\* on the path; or a binary whose runs exit non-zero or run into the timeout
ToolStates == {"installed", "missing", "broken"}

\* a probe that finds ImageMagick on every machine
EnsureAlways(mg) == TRUE

\* ImageOptimizer.ensure_imagemagick: FileNotFoundError and the timeout are
\* caught, a non-zero exit makes the comparison false
ensure_imagemagick(mg) == mg = "installed"

\* ImageOptimizer.get_image_info: the FileNotFoundError of a missing binary is
\* not among the exceptions caught, and leaves the function; after a non-zero
\* exit or the timeout the size is all that is returned
get_image_info(imgs, name, mg) ==
    IF mg = "missing" THEN [exc |-> TRUE, width |-> 0, height |-> 0, file_size |-> 0]
    ELSE IF mg = "broken"
    THEN [exc |-> FALSE, width |-> 0, height |-> 0, file_size |-> imgs[name].size]
    ELSE [exc |-> FALSE, width |-> imgs[name].w, height |-> imgs[name].h,
          file_size |-> imgs[name].size]

\* a judgment that looks at the size and the width only
NeedsWithoutHeight(imgs, name, mg) ==
    IF ~ImageExists(imgs, name) THEN [exc |-> FALSE, val |-> FALSE]
    ELSE LET info == get_image_info(imgs, name, mg)
         IN  IF info.exc THEN [exc |-> TRUE, val |-> FALSE]
             ELSE [exc |-> FALSE,
                   val |-> \/ info.file_size > MaxFileSize
                           \/ 10 * info.width > 12 * TargetWidth]

\* ImageOptimizer.needs_optimization; w > 400 * 1.2 is 10 * w > 12 * 400
needs_optimization(imgs, name, mg) ==
    IF ~ImageExists(imgs, name) THEN [exc |-> FALSE, val |-> FALSE]
    ELSE LET info == get_image_info(imgs, name, mg)
         IN  IF info.exc THEN [exc |-> TRUE, val |-> FALSE]
             ELSE IF info.file_size > MaxFileSize THEN [exc |-> FALSE, val |-> TRUE]
             ELSE IF /\ info.width > 0
                     /\ info.height > 0
                     /\ \/ 10 * info.width > 12 * TargetWidth
                        \/ 10 * info.height > 12 * TargetHeight
                  THEN [exc |-> FALSE, val |-> TRUE]
             ELSE [exc |-> FALSE, val |-> FALSE]

\* |x|
Abs(x) == IF x < 0 THEN -x ELSE x

\* ImageOptimizer.check_image_requirements; abs(w/h - 400/600) > 0.1 cleared of
\* its denominators is 10 * |600 w - 400 h| > 600 h.  The floating-point
\* quotients agree with that but where w/h is 23/30, one tenth above 400/600:
\* there the difference of the doubles is 0.10000000000000009, and is flagged
\* (at 17/30 it is 0.09999999999999998, and is not)
check_image_requirements(imgs, name, mg) ==
    IF ~ImageExists(imgs, name) THEN [exc |-> FALSE, valid |-> FALSE, issues |-> {"missing"}]
    ELSE LET info == get_image_info(imgs, name, mg)
             issues ==
                 (IF info.file_size > MaxFileSize THEN {"size"} ELSE {})
                 \cup (IF /\ info.width > 0
                          /\ info.height > 0
                          /\ \/ 10 * Abs(TargetHeight * info.width - TargetWidth * info.height)
                                   > TargetHeight * info.height
                             \/ 30 * info.width = 23 * info.height
                       THEN {"aspect"} ELSE {})
         IN  IF info.exc THEN [exc |-> TRUE, valid |-> FALSE, issues |-> {}]
             ELSE [exc |-> FALSE, valid |-> issues = {}, issues |-> issues]

\* a backup that is taken anew at every transform
BackupAlways(imgs, bk, name) == (name :> imgs[name]) @@ bk

\* ImageOptimizer.create_backup: copies only when no backup of that name exists
create_backup(imgs, bk, name) ==
    IF name \in DOMAIN bk THEN bk ELSE (name :> imgs[name]) @@ bk

\* what "-resize 400x600>" and "-quality 85" make of an image: shrunk to fit
\* inside 400x600 with its proportions kept, never enlarged; recompressed
Resized(img) ==
    IF img.w <= TargetWidth /\ img.h <= TargetHeight
    THEN Image(IF img.size > MaxFileSize THEN MaxFileSize \div 2 ELSE img.size, img.w, img.h)
    ELSE IF img.w * TargetHeight >= img.h * TargetWidth
    THEN Image(MaxFileSize \div 2, TargetWidth, (img.h * TargetWidth) \div img.w)
    ELSE Image(MaxFileSize \div 2, (img.w * TargetHeight) \div img.h, TargetHeight)

\* the file at temp_path when the transform has ended without success: what
\* a non-zero exit or the timeout had written of it, or nothing
TempWritten(outcome, name) == IF outcome = "no_output" THEN {} ELSE {name}

\* a failure that leaves the temporary file where it is
LeaveTemp(tmp, name) == tmp

\* ImageOptimizer.optimize_image: "if os.path.exists(temp_path): os.remove(temp_path)"
Cleanup(tmp, name) == tmp \ {name}

\* a transform of every picture, needed or not
OptimizeWithoutJudging(imgs, bk, name, mg, outcome) ==
    IF ~ensure_imagemagick(mg) \/ ~ImageExists(imgs, name)
    THEN [exc |-> FALSE, ret |-> FALSE, images |-> imgs, imgBackup |-> bk, temp |-> {},
          ran |-> FALSE]
    ELSE [exc |-> FALSE, ret |-> outcome = "ok",
          images |-> IF outcome = "ok" THEN [imgs EXCEPT ![name] = Resized(imgs[name])]
                     ELSE imgs,
          imgBackup |-> create_backup(imgs, bk, name), temp |-> {}, ran |-> TRUE]

\* ImageOptimizer.optimize_image
optimize_image(imgs, bk, name, mg, outcome) ==
    LET same == [exc |-> FALSE, ret |-> FALSE, images |-> imgs, imgBackup |-> bk,
                 temp |-> {}, ran |-> FALSE]
        \* after subprocess.run: os.replace moves the output onto the picture,
        \* or what there is of the output is removed
        transformed(saved) ==
            IF outcome = "ok"
            THEN [exc |-> FALSE, ret |-> TRUE,
                  images |-> [imgs EXCEPT ![name] = Resized(imgs[name])],
                  imgBackup |-> saved, temp |-> {}, ran |-> TRUE]
            ELSE [same EXCEPT !.imgBackup = saved, !.ran = TRUE,
                              !.temp = Cleanup(TempWritten(outcome, name), name)]
        judged(needs) ==
            IF needs.exc THEN [same EXCEPT !.exc = TRUE]
            ELSE IF ~needs.val THEN [same EXCEPT !.ret = TRUE]
            ELSE transformed(create_backup(imgs, bk, name))
    IN  IF ~ensure_imagemagick(mg) THEN same
        ELSE IF ~ImageExists(imgs, name) THEN same
        ELSE judged(needs_optimization(imgs, name, mg))

\* ImageOptimizer.optimize_all_images
optimize_all_images(imgs, bk, mg, outcome) ==
    IF DOMAIN imgs = {} THEN [exc |-> FALSE, images |-> imgs, imgBackup |-> bk]
    ELSE IF mg = "missing" THEN [exc |-> TRUE, images |-> imgs, imgBackup |-> bk]
    ELSE IF ~ensure_imagemagick(mg) THEN [exc |-> FALSE, images |-> imgs, imgBackup |-> bk]
    ELSE LET todo == {n \in DOMAIN imgs : needs_optimization(imgs, n, mg).val}
         IN  [exc |-> FALSE,
              images |-> [n \in DOMAIN imgs |->
                            IF n \in todo THEN optimize_image(imgs, bk, n, mg, outcome).images[n]
                            ELSE imgs[n]],
              imgBackup |-> [n \in DOMAIN bk \cup todo |->
                            IF n \in DOMAIN bk THEN bk[n] ELSE imgs[n]]]

-----------------------------------------------------------------------------
(* What the operator does at a prompt: types a line, or presses Ctrl-C.    *)

Line(s) == [int |-> FALSE, s |-> s]
CtrlC   == [int |-> TRUE,  s |-> <<>>]

\* a prompt the invocation does not reach
Unasked == Line(<<>>)

\* the three pairs of difficulty_map; the Japanese labels are written in Latin
\* letters (shoshin for 初心者向け, keiken for 経験者向け, ekisu for エキスパート向け)
difficulty_map ==
    [k \in {<<"1">>, <<"2">>, <<"3">>} |->
        CASE k = <<"1">> -> <<Str(<<"b", "e", "g", "i", "n", "n", "e", "r">>),
                              Str(<<"s", "h", "o", "s", "h", "i", "n">>)>>
          [] k = <<"2">> -> <<Str(<<"i", "n", "t", "e", "r", "m", "e", "d", "i", "a", "t", "e">>),
                              Str(<<"k", "e", "i", "k", "e", "n">>)>>
          [] OTHER       -> <<Str(<<"e", "x", "p", "e", "r", "t">>),
                              Str(<<"e", "k", "i", "s", "u">>)>>]

\* re.sub(r'[^a-z0-9-]', '', title.lower().replace(' ', '-')), or "new-game"
SuggestedId(title) ==
    LET kept == KeepChars(ReplaceChar(Lower(title), " ", "-"),
                          Lowercase \cup Digits \cup {"-"})
    IN  IF kept = <<>> THEN <<"n", "e", "w", "-", "g", "a", "m", "e">> ELSE kept

\* f"{game_id}.jpg", f"/downloads/rules/{game_id}-rules.pdf",
\* f"/downloads/summaries/{game_id}-summary.pdf"
SuggestedImage(game_id)   == game_id \o <<".", "j", "p", "g">>
SuggestedRules(game_id) ==
    <<"/", "d", "o", "w", "n", "l", "o", "a", "d", "s", "/", "r", "u", "l", "e", "s", "/">>
    \o game_id \o <<"-", "r", "u", "l", "e", "s", ".", "p", "d", "f">>
SuggestedSummary(game_id) ==
    <<"/", "d", "o", "w", "n", "l", "o", "a", "d", "s", "/", "s", "u", "m", "m", "a", "r", "i", "e", "s", "/">>
    \o game_id \o <<"-", "s", "u", "m", "m", "a", "r", "y", ".", "p", "d", "f">>

\* the ids of the records of a loaded catalog: [game.get('id') for game in ...]
IdsOf(games) == {Get(games[i], "id") : i \in 1..Len(games)}

\* a while-True prompt that repeats until the answer is one of the choices:
\* the index of the first accepted answer, 0 when none of the answers is.
\* An invocation has ended only if it was given exactly the answers it reads.
RECURSIVE FirstIn(_, _, _)
FirstIn(answers, choices, i) ==
    IF i > Len(answers) THEN 0
    ELSE IF answers[i] \in choices THEN i
    ELSE FirstIn(answers, choices, i + 1)

-----------------------------------------------------------------------------
(* EnhancedGameAdder (add_game.py).                                        *)

\* EnhancedGameAdder.safe_input: the bare except also catches KeyboardInterrupt
EnhancedGameAdder_safe_input(a) == IF a.int THEN <<>> ELSE Strip(a.s)

\* x or default
Or(x, default) == IF x # <<>> THEN x ELSE default

\* EnhancedGameAdder.validate_and_optimize_image
validate_and_optimize_image(imgs, bk, name, mg, a) ==
    LET same == [exc |-> FALSE, ok |-> FALSE, images |-> imgs, imgBackup |-> bk, asked |-> {}]
        optimized(o, ran) ==
            [exc |-> FALSE, ok |-> o.ret, images |-> o.images, imgBackup |-> o.imgBackup,
             asked |-> {"optimize"} \cup (IF ran THEN {"outcome"} ELSE {})]
        checked(chk) ==
            IF chk.exc THEN [same EXCEPT !.exc = TRUE]
            ELSE IF chk.valid THEN [same EXCEPT !.ok = TRUE]
            ELSE IF Lower(EnhancedGameAdder_safe_input(a.optimize)) # <<"y">>
                 THEN [same EXCEPT !.asked = {"optimize"}]
            ELSE optimized(optimize_image(imgs, bk, name, mg, a.outcome),
                           needs_optimization(imgs, name, mg).val)
    IN  IF ~ImageExists(imgs, name) THEN same
        ELSE checked(check_image_requirements(imgs, name, mg))

\* EnhancedGameAdder.add_new_game_with_optimization: game is <<>> for None
add_new_game_with_optimization(f, imgs, bk, mg, a) ==
    LET in(x) == EnhancedGameAdder_safe_input(x)
        none(asked, dup) == [exc |-> FALSE, game |-> <<>>, dup |-> dup, blocked |-> FALSE,
                             images |-> imgs, imgBackup |-> bk, asked |-> asked]
        upto_image == {"title", "id", "players", "time", "age", "diff", "description", "image"}
        \* from "if is_valid:" on
        validated(basic, image_filename, v) ==
            IF v.exc
            THEN [none(upto_image \cup v.asked, FALSE) EXCEPT !.exc = TRUE]
            ELSE IF v.ok
            THEN [exc |-> FALSE, game |-> <<Put(basic, "image", Str(image_filename))>>,
                  dup |-> FALSE, blocked |-> FALSE, images |-> v.images,
                  imgBackup |-> v.imgBackup,
                  asked |-> upto_image \cup v.asked \cup {"rules", "summary"}]
            ELSE IF Lower(in(a.cont)) # <<"y">>
            THEN [none(upto_image \cup v.asked \cup {"cont"}, FALSE)
                    EXCEPT !.images = v.images, !.imgBackup = v.imgBackup]
            ELSE [exc |-> FALSE, game |-> <<basic>>, dup |-> FALSE, blocked |-> FALSE,
                  images |-> v.images, imgBackup |-> v.imgBackup,
                  asked |-> upto_image \cup v.asked \cup {"cont", "rules", "summary"}]
        \* game_data once the image and the two paths are asked
        basic(title, game_id, chosen) ==
            [id |-> Str(game_id), title |-> Str(title),
             players |-> Str(in(a.players)), time |-> Str(in(a.time)),
             age |-> Str(in(a.age)),
             difficulty |-> chosen[1], difficultyText |-> chosen[2],
             description |-> Str(in(a.description)),
             rulesUrl |-> Str(Or(in(a.rules), SuggestedRules(game_id))),
             summaryUrl |-> Str(Or(in(a.summary), SuggestedSummary(game_id)))]
        imaged(title, game_id, chosen, image_filename) ==
            validated(basic(title, game_id, chosen), image_filename,
                      validate_and_optimize_image(imgs, bk, image_filename, mg, a))
        \* the difficulty loop has ended on the answer numbered choice
        picked(title, game_id, choice) ==
            IF choice = 0 \/ choice # Len(a.diff)
            THEN [none({"title", "id", "players", "time", "age", "diff"}, FALSE)
                    EXCEPT !.blocked = TRUE]
            ELSE imaged(title, game_id, difficulty_map[in(a.diff[choice])],
                        Or(in(a.image), SuggestedImage(game_id)))
        ided(title, game_id) ==
            IF Str(game_id) \in IdsOf(EnhancedGameAdder_load_games_data(f).data.games)
            THEN none({"title", "id"}, TRUE)
            ELSE picked(title, game_id,
                        FirstIn([i \in 1..Len(a.diff) |-> in(a.diff[i])],
                                DOMAIN difficulty_map, 1))
        titled(title) ==
            IF title = <<>> THEN none({"title"}, FALSE)
            ELSE ided(title, Or(in(a.id), SuggestedId(title)))
    IN  titled(in(a.title))

\* EnhancedGameAdder.run_with_image_optimization
run_with_image_optimization(f, bks, imgs, bk, mg, t, a) ==
    LET in(x) == EnhancedGameAdder_safe_input(x)
        \* after "最適化しますか"
        optimized(out, all, all_ran) ==
            [out EXCEPT !.ret = ~all.exc, !.error = all.exc,
                        !.images = all.images, !.imgBackup = all.imgBackup,
                        !.asked = @ \cup (IF all_ran THEN {"outcome_all"} ELSE {})]
        \* after save_games_data
        saved(out, sv) ==
            IF ~sv.ok
            THEN [out EXCEPT !.file = sv.file, !.backups = sv.backups, !.save = "failed",
                             !.asked = @ \cup {"fault"}]
            ELSE IF Lower(in(a.optall)) # <<"y">>
            THEN [out EXCEPT !.file = sv.file, !.backups = sv.backups, !.save = "ok",
                             !.ret = TRUE, !.asked = @ \cup {"fault", "optall"}]
            ELSE optimized([out EXCEPT !.file = sv.file, !.backups = sv.backups,
                                       !.save = "ok", !.asked = @ \cup {"fault", "optall"}],
                           optimize_all_images(out.images, out.imgBackup, mg, a.outcome_all),
                           ensure_imagemagick(mg) /\ \E n \in DOMAIN out.images :
                                    needs_optimization(out.images, n, mg).val)
        \* after the confirmation prompt
        confirmed(out, confirm, data) ==
            IF Lower(confirm) # <<"y">>
            THEN [out EXCEPT !.cancelled = TRUE, !.confirm = confirm,
                             !.asked = @ \cup {"confirm"}]
            ELSE saved([out EXCEPT !.confirm = confirm, !.asked = @ \cup {"confirm"}],
                       EnhancedGameAdder_save_games_data(
                           f, bks, t, [games |-> Append(data.games, out.game[1])], a.fault))
        \* after the wizard
        collected(out, exc) ==
            IF exc THEN [out EXCEPT !.error = TRUE]
            ELSE IF out.game = <<>> THEN out
            ELSE confirmed(out, in(a.confirm), EnhancedGameAdder_load_games_data(f).data)
        wizard(w) ==
            collected([file |-> f, backups |-> bks, images |-> w.images,
                       imgBackup |-> w.imgBackup, ret |-> FALSE, save |-> "none",
                       cancelled |-> FALSE, error |-> FALSE, dup |-> w.dup,
                       blocked |-> w.blocked, game |-> w.game, confirm |-> <<>>,
                       asked |-> w.asked],
                      w.exc)
    IN  wizard(add_new_game_with_optimization(f, imgs, bk, mg, a))

-----------------------------------------------------------------------------
(* GameAdder (v1-add_game - コピー.py).  Its prompts repeat, so each is given *)
(* the sequence of answers typed at it.                                    *)

\* GameAdder.validate_id
validate_id(game_id) ==
    /\ Len(game_id) > 0
    /\ \A i \in 1..Len(game_id) : game_id[i] \in Lowercase \cup Digits \cup {"-"}
    /\ ~(Head(game_id) = "-" \/ game_id[Len(game_id)] = "-")
    /\ Len(game_id) >= 2

\* GameAdder.get_user_input from the i-th answer on.  k is "value", "none" (an
\* optional prompt left empty), "interrupt" (KeyboardInterrupt re-raised) or
\* "blocked" (the answers ran out before one was accepted); used is the number
\* of answers read
RECURSIVE get_user_input(_, _, _, _, _)
get_user_input(answers, required, choices, validator, i) ==
    IF i > Len(answers) THEN [k |-> "blocked", v |-> <<>>, used |-> i - 1]
    ELSE IF answers[i].int THEN [k |-> "interrupt", v |-> <<>>, used |-> i]
    ELSE LET value == Strip(answers[i].s)
         IN  IF ~required /\ value = <<>> THEN [k |-> "none", v |-> <<>>, used |-> i]
             ELSE IF value # <<>>
             THEN IF choices # {} /\ value \notin choices
                  THEN get_user_input(answers, required, choices, validator, i + 1)
                  ELSE IF validator /\ ~validate_id(value)
                  THEN get_user_input(answers, required, choices, validator, i + 1)
                  ELSE [k |-> "value", v |-> value, used |-> i]
             ELSE get_user_input(answers, required, choices, validator, i + 1)

\* the first prompt of order, from position j on, that did not yield an answer
\* (interrupted or out of answers) or left answers unread; 0 if none
RECURSIVE FirstStop(_, _, _, _)
FirstStop(order, rs, a, j) ==
    IF j > Len(order) THEN 0
    ELSE IF rs[order[j]].k \in {"interrupt", "blocked"}
            \/ rs[order[j]].used # Len(a[order[j]])
         THEN j
    ELSE FirstStop(order, rs, a, j + 1)

\* GameAdder.add_new_game: game is <<>> when a prompt raised KeyboardInterrupt
add_new_game(f, a) ==
    LET or(r, default) == IF r.k = "value" THEN r.v ELSE default
        game_data(rs, game_id) ==
            [id |-> Str(game_id), title |-> Str(rs.title.v),
             players |-> Str(rs.players.v), time |-> Str(rs.time.v), age |-> Str(rs.age.v),
             difficulty |-> difficulty_map[rs.diff.v][1],
             difficultyText |-> difficulty_map[rs.diff.v][2],
             description |-> Str(rs.description.v),
             image |-> Str(or(rs.image, SuggestedImage(game_id))),
             rulesUrl |-> Str(or(rs.rules, SuggestedRules(game_id))),
             summaryUrl |-> Str(or(rs.summary, SuggestedSummary(game_id)))]
        \* stop is the prompt of order at which the wizard was left, 0 for none
        result(rs, order, stop, dup, game_id) ==
            IF stop # 0
            THEN [game |-> <<>>, dup |-> stop > 2 /\ dup,
                  blocked |-> rs[order[stop]].k # "interrupt",
                  int |-> rs[order[stop]].k = "interrupt",
                  asked |-> {order[j] : j \in 1..stop}]
            ELSE [game |-> <<game_data(rs, game_id)>>, dup |-> dup, blocked |-> FALSE,
                  int |-> FALSE, asked |-> {order[j] : j \in 1..Len(order)}]
        ordered(rs, order, dup, game_id) ==
            result(rs, order, FirstStop(order, rs, a, 1), dup, game_id)
        \* "if game_id in existing_ids": one more prompt, whose answer is not
        \* compared with existing_ids
        checked(rs, dup, first_id) ==
            ordered(rs,
                    <<"title", "id">>
                    \o (IF rs.title.k = "value" /\ rs.id.k \in {"value", "none"} /\ dup
                        THEN <<"newid">> ELSE <<>>)
                    \o <<"players", "time", "age", "diff", "description", "image", "rules",
                         "summary">>,
                    dup,
                    IF dup THEN rs.newid.v ELSE first_id)
        ided(rs, first_id) ==
            checked(rs, Str(first_id) \in IdsOf(GameAdder_load_games_data(f).data.games),
                    first_id)
        prompted(rs) == ided(rs, or(rs.id, SuggestedId(rs.title.v)))
    IN  prompted([title       |-> get_user_input(a.title, TRUE, {}, FALSE, 1),
                  id          |-> get_user_input(a.id, FALSE, {}, TRUE, 1),
                  newid       |-> get_user_input(a.newid, TRUE, {}, TRUE, 1),
                  players     |-> get_user_input(a.players, TRUE, {}, FALSE, 1),
                  time        |-> get_user_input(a.time, TRUE, {}, FALSE, 1),
                  age         |-> get_user_input(a.age, TRUE, {}, FALSE, 1),
                  diff        |-> get_user_input(a.diff, TRUE, DOMAIN difficulty_map, FALSE, 1),
                  description |-> get_user_input(a.description, TRUE, {}, FALSE, 1),
                  image       |-> get_user_input(a.image, FALSE, {}, FALSE, 1),
                  rules       |-> get_user_input(a.rules, FALSE, {}, FALSE, 1),
                  summary     |-> get_user_input(a.summary, FALSE, {}, FALSE, 1)])

\* GameAdder.run_add_game
run_add_game(f, bks, imgs, bk, mg, t, a) ==
    LET saved(out, sv) ==
            [out EXCEPT !.file = sv.file, !.backups = sv.backups,
                        !.save = IF sv.ok THEN "ok" ELSE "failed", !.ret = sv.ok,
                        !.asked = @ \cup {"fault"}]
        confirmed(out, confirm, data) ==
            IF confirm.k = "blocked" \/ (confirm.k = "value" /\ confirm.used # Len(a.confirm))
            THEN [out EXCEPT !.blocked = TRUE, !.asked = @ \cup {"confirm"}]
            ELSE IF confirm.k = "interrupt"
            THEN [out EXCEPT !.cancelled = TRUE, !.int = TRUE, !.asked = @ \cup {"confirm"}]
            ELSE IF Lower(confirm.v) # <<"y">>
            THEN [out EXCEPT !.cancelled = TRUE, !.confirm = confirm.v,
                             !.asked = @ \cup {"confirm"}]
            ELSE saved([out EXCEPT !.confirm = confirm.v, !.asked = @ \cup {"confirm"}],
                       GameAdder_save_games_data(
                           f, bks, t, [games |-> Append(data.games, out.game[1])], a.fault))
        collected(out) ==
            IF out.blocked THEN out
            ELSE IF out.int THEN [out EXCEPT !.cancelled = TRUE]
            ELSE confirmed(out,
                           get_user_input(a.confirm, TRUE,
                                          {<<"y">>, <<"n">>, <<"Y">>, <<"N">>}, FALSE, 1),
                           GameAdder_load_games_data(f).data)
        wizard(w) ==
            collected([file |-> f, backups |-> bks, images |-> imgs, imgBackup |-> bk,
                       ret |-> FALSE, save |-> "none", cancelled |-> FALSE, error |-> FALSE,
                       dup |-> w.dup, blocked |-> w.blocked, game |-> w.game,
                       confirm |-> <<>>, asked |-> w.asked, int |-> w.int])
    IN  wizard(add_new_game(f, a))

-----------------------------------------------------------------------------
(* GameManager (manage_games.py).                                          *)

\* GameManager.safe_input: input(prompt).strip(); the bare except also catches
\* KeyboardInterrupt and answers ""
GameManager_safe_input(a) == IF a.int THEN <<>> ELSE Strip(a.s)

\* int(s) of a string of decimal digits
DigitSeq == <<"0", "1", "2", "3", "4", "5", "6", "7", "8", "9">>
RECURSIVE ParseInt(_)
ParseInt(s) ==
    IF s = <<>> THEN 0
    ELSE 10 * ParseInt(SubSeq(s, 1, Len(s) - 1))
         + (CHOOSE d \in 0..9 : DigitSeq[d + 1] = s[Len(s)])

\* a search that does not look into the number of players
FieldsWithoutPlayers == <<"title", "id", "description", "difficultyText">>

\* the fields search_games looks into, in the order it reads them
searchable_fields == <<"title", "id", "description", "players", "difficultyText">>

\* any(query_lower in field.lower() for field in searchable_fields): "match",
\* "no", or "exc" when a field that is no string is reached first
RECURSIVE AnyField(_, _, _)
AnyField(game, q, i) ==
    IF i > Len(searchable_fields) THEN "no"
    ELSE LET field == GetOr(game, searchable_fields[i], Str(<<>>))
         IN  IF field.t # "str" THEN "exc"
             ELSE IF Contains(Lower(field.v), q) THEN "match"
             ELSE AnyField(game, q, i + 1)

\* GameManager.search_games
search_games(f, query) ==
    LET among(games, q) ==
            IF query = <<>> THEN [exc |-> FALSE, matches |-> games]
            ELSE IF \E i \in 1..Len(games) : AnyField(games[i], q, 1) = "exc"
            THEN [exc |-> TRUE, matches |-> <<>>]
            ELSE [exc |-> FALSE,
                  matches |-> SelectSeq(games, LAMBDA g : AnyField(g, q, 1) = "match")]
    IN  among(GameManager_load_games_data(f).data.games, Lower(query))

\* GameManager.select_game_interactive: the prompt repeats until a number of
\* the list is typed
RECURSIVE FirstNumber(_, _, _)
FirstNumber(answers, n, i) ==
    IF i > Len(answers) THEN 0
    ELSE LET choice == GameManager_safe_input(answers[i])
         IN  IF IsDigit(choice) /\ 1 <= ParseInt(choice) /\ ParseInt(choice) <= n THEN i
             ELSE FirstNumber(answers, n, i + 1)

select_game_interactive(games, answers) ==
    LET chosen(i) ==
            IF i = 0 \/ i # Len(answers)
            THEN [game |-> <<>>, blocked |-> TRUE, asked |-> {"select"}]
            ELSE [game |-> <<games[ParseInt(GameManager_safe_input(answers[i]))]>>,
                  blocked |-> FALSE, asked |-> {"select"}]
    IN  IF games = <<>> THEN [game |-> <<>>, blocked |-> FALSE, asked |-> {}]
        ELSE IF Len(games) = 1 THEN [game |-> <<games[1]>>, blocked |-> FALSE, asked |-> {}]
        ELSE chosen(FirstNumber(answers, Len(games), 1))

\* the first part of edit_game and delete_game: the record the command is
\* about, <<>> when the command returns False before it has one
TargetGame(f, a) ==
    LET none == [exc |-> FALSE, game |-> <<>>, blocked |-> FALSE, cancelled |-> FALSE,
                 asked |-> {}]
        selected(asked, sel) ==
            [none EXCEPT !.game = sel.game, !.blocked = sel.blocked,
                         !.asked = asked \cup sel.asked]
        searched(asked, found) ==
            IF found.exc THEN [none EXCEPT !.exc = TRUE, !.asked = asked]
            ELSE IF found.matches = <<>> THEN [none EXCEPT !.asked = asked]
            ELSE selected(asked, select_game_interactive(found.matches, a.select))
        numbered(games, index) ==
            IF 0 <= index /\ index < Len(games)
            THEN [none EXCEPT !.game = <<games[index + 1]>>, !.asked = {"query"}]
            ELSE [none EXCEPT !.asked = {"query"}]
        listed(games, query) ==
            IF games = <<>> THEN none
            ELSE IF query = <<>> THEN [none EXCEPT !.cancelled = TRUE, !.asked = {"query"}]
            ELSE IF IsDigit(query) THEN numbered(games, ParseInt(query) - 1)
            ELSE searched({"query"}, search_games(f, query))
    IN  IF a.arg # <<>> THEN searched({}, search_games(f, a.arg))
        ELSE listed(GameManager_load_games_data(f).data.games,
                    GameManager_safe_input(a.query))

\* the fields of the edit menu, by number
fields == <<"title", "players", "time", "age", "difficulty", "description", "image",
            "rulesUrl", "summaryUrl">>

\* the while-True menu of edit_game from the i-th answer on, on the record game
\* an edit of the difficulty that leaves the label as it was
SetDifficultyOnly(game, pair) == Put(game, "difficulty", pair[1])

\* GameManager.edit_game, the two assignments of the difficulty branch
SetDifficulty(game, pair) == Put(Put(game, "difficulty", pair[1]), "difficultyText", pair[2])

\* a menu that takes the empty answer for a value
GaveAnything(value) == TRUE

\* GameManager.edit_game: "if new_value:"
GaveValue(value) == value # <<>>

RECURSIVE EditMenu(_, _, _, _)
EditMenu(game, modified, answers, i) ==
    LET \* the field numbered n is to be given the answer value
        edit(n, value) ==
            IF fields[n] = "difficulty"
            THEN IF value \in DOMAIN difficulty_map
                 THEN EditMenu(SetDifficulty(game, difficulty_map[value]), TRUE, answers, i + 2)
                 ELSE EditMenu(game, modified, answers, i + 2)
            ELSE IF GaveValue(value)
                 THEN EditMenu(Put(game, fields[n], Str(value)), TRUE, answers, i + 2)
                 ELSE EditMenu(game, modified, answers, i + 2)
        chosen(choice) ==
            IF choice = <<"0">>
            THEN [game |-> game, modified |-> modified, blocked |-> i # Len(answers)]
            ELSE IF ~IsDigit(choice)
            THEN EditMenu(game, modified, answers, i + 1)
            ELSE IF ~(1 <= ParseInt(choice) /\ ParseInt(choice) <= Len(fields))
            THEN EditMenu(game, modified, answers, i + 1)
            ELSE IF i + 1 > Len(answers)
            THEN [game |-> game, modified |-> modified, blocked |-> TRUE]
            ELSE edit(ParseInt(choice), GameManager_safe_input(answers[i + 1]))
    IN  IF i > Len(answers) THEN [game |-> game, modified |-> modified, blocked |-> TRUE]
        ELSE chosen(GameManager_safe_input(answers[i]))

\* GameManager.edit_game
edit_game(f, bks, t, a) ==
    LET saved(out, sv) ==
            [out EXCEPT !.file = sv.file, !.backups = sv.backups, !.ret = sv.ok,
                        !.save = IF sv.ok THEN "ok" ELSE "failed",
                        !.asked = @ \cup {"fault"}]
        \* after the menu loop
        edited(out, data, target_index, m) ==
            IF m.blocked THEN [out EXCEPT !.blocked = TRUE, !.asked = @ \cup {"menu"}]
            ELSE IF ~m.modified THEN [out EXCEPT !.ret = TRUE, !.asked = @ \cup {"menu"}]
            ELSE saved([out EXCEPT !.asked = @ \cup {"menu"}],
                       GameManager_save_games_data(
                           f, bks, t,
                           [games |-> [data.games EXCEPT ![target_index] = m.game]],
                           a.fault))
        located(out, data, target_index) ==
            edited(out, data, target_index,
                   EditMenu(data.games[target_index], FALSE, a.menu, 1))
        \* target_index is the first record with the id of the target
        indexed(out, data, hits) ==
            IF hits = {} THEN out
            ELSE located(out, data, CHOOSE i \in hits : \A j \in hits : i <= j)
        loaded(out, data) ==
            indexed(out, data,
                    {i \in 1..Len(data.games) :
                        Get(data.games[i], "id") = Get(out.game[1], "id")})
        targeted(out) ==
            IF out.game = <<>> THEN out ELSE loaded(out, GameManager_load_games_data(f).data)
        resolved(tg) ==
            targeted([file |-> f, backups |-> bks, ret |-> FALSE, save |-> "none",
                      cancelled |-> tg.cancelled, error |-> tg.exc, blocked |-> tg.blocked,
                      game |-> tg.game, confirm |-> <<>>, asked |-> tg.asked])
    IN  resolved(TargetGame(f, a))

\* GameManager.suggest_file_cleanup: the files it lists
files_to_check(game, imgs, dls) ==
    [images    |-> IF Truthy(Get(game, "image")) /\ ImageExists(imgs, Get(game, "image").v)
                   THEN {Get(game, "image").v} ELSE {},
     downloads |-> {Tail(Get(game, k).v) : k \in {k \in {"rulesUrl", "summaryUrl"} :
                                                  Truthy(Get(game, k))}} \cap dls]

\* a confirmation that takes every answer but "no"
ConfirmedUnlessNo(answer) == Lower(answer) # <<"n", "o">>

\* confirm = safe_input(...).lower(); confirm in ['yes', 'y']
Confirmed(answer) == Lower(answer) \in {<<"y", "e", "s">>, <<"y">>}

\* a removal that also drops the record after the target
RemoveWithNext(games, target) ==
    LET hit == {i \in 1..Len(games) : Get(games[i], "id") = Get(target, "id")}
        keep == {i \in 1..Len(games) : i \notin hit /\ i - 1 \notin hit}
        F[i \in 0..Len(games)] ==
            IF i = 0 THEN <<>> ELSE IF i \in keep THEN Append(F[i - 1], games[i]) ELSE F[i - 1]
    IN  F[Len(games)]

\* [g for g in data['games'] if g.get('id') != target_game.get('id')]
RemoveById(games, target) ==
    SelectSeq(games, LAMBDA g : Get(g, "id") # Get(target, "id"))

\* GameManager.delete_game
delete_game(f, bks, imgs, dls, t, a) ==
    LET \* suggest_file_cleanup
        cleaned(out, chk, delete_files) ==
            IF chk.images = {} /\ chk.downloads = {} THEN out
            ELSE IF delete_files # <<"y", "e", "s">>
            THEN [out EXCEPT !.asked = @ \cup {"cleanup"}]
            ELSE [out EXCEPT !.images = [n \in DOMAIN imgs \ chk.images |-> imgs[n]],
                             !.downloads = dls \ chk.downloads,
                             !.asked = @ \cup {"cleanup"}]
        saved(out, sv) ==
            IF ~sv.ok
            THEN [out EXCEPT !.file = sv.file, !.backups = sv.backups, !.save = "failed",
                             !.asked = @ \cup {"fault"}]
            ELSE cleaned([out EXCEPT !.file = sv.file, !.backups = sv.backups,
                                     !.save = "ok", !.ret = TRUE,
                                     !.asked = @ \cup {"fault"}],
                         files_to_check(out.game[1], imgs, dls),
                         Lower(GameManager_safe_input(a.cleanup)))
        removed(out, data, kept) ==
            IF ~(Len(kept) < Len(data.games)) THEN out
            ELSE saved(out, GameManager_save_games_data(f, bks, t, [games |-> kept],
                                                        a.fault))
        loaded(out, data) == removed(out, data, RemoveById(data.games, out.game[1]))
        answered(out, confirm) ==
            IF ~Confirmed(confirm)
            THEN [out EXCEPT !.cancelled = TRUE, !.confirm = confirm,
                             !.asked = @ \cup {"confirm"}]
            ELSE loaded([out EXCEPT !.confirm = confirm, !.asked = @ \cup {"confirm"}],
                        GameManager_load_games_data(f).data)
        targeted(out) ==
            IF out.game = <<>> THEN out
            ELSE answered(out, GameManager_safe_input(a.confirm))
        resolved(tg) ==
            targeted([file |-> f, backups |-> bks, images |-> imgs, downloads |-> dls,
                      ret |-> FALSE, save |-> "none", cancelled |-> tg.cancelled,
                      error |-> tg.exc, blocked |-> tg.blocked, game |-> tg.game,
                      confirm |-> <<>>, asked |-> tg.asked])
    IN  resolved(TargetGame(f, a))

-----------------------------------------------------------------------------
(* The answers and the faults an invocation is run with.  Each command is  *)
(* tried with every combination of one of its tables of answers.           *)

sAb   == <<"A", "b">>
sab   == <<"a", "b">>
scd   == <<"c", "d">>
sfun  == <<"f", "u", "n">>
syes  == <<"y", "e", "s">>
sY    == <<"y">>
sN    == <<"n">>

\* did the operator press Ctrl-C at one of the prompts that were asked
Interrupted(a, asked) ==
    \E p \in asked \ {"fault", "outcome", "outcome_all"} :
        IF p \in {"diff", "menu", "select"} THEN \E i \in 1..Len(a[p]) : a[p][i].int
        ELSE a[p].int

\* the first prompt from position k on that the invocation asked, 0 if none
NextAsked(order, asked, k) ==
    LET js == {j \in k..Len(order) : order[j] \in asked}
    IN  IF js = {} THEN 0 ELSE CHOOSE j \in js : \A i \in js : j <= i

\* python add_game.py: answers by prompt, with a disk that does not fail, and
\* the plain answers with a disk that does
EnhancedAnswers ==
    [title       |-> {Line(<<"A", "b", " ">>), Line(<<>>)},
     id          |-> {Line(<<>>), Line(scd)},
     players     |-> {Line(<<"2">>), Line(<<>>), CtrlC},
     time        |-> {Line(<<"4", "5">>)},
     age         |-> {Line(<<"8">>)},
     diff        |-> {<<Line(<<"4">>), Line(<<"3">>)>>},
     description |-> {Line(sfun)},
     image       |-> {Line(<<>>)},
     optimize    |-> {Line(sY), Line(sN)},
     outcome     |-> TransformOutcomes,
     cont        |-> {Line(sY), Line(sN)},
     rules       |-> {Line(<<>>)},
     summary     |-> {Line(<<>>)},
     confirm     |-> {Line(sY), Line(sN)},
     fault       |-> {"none"},
     optall      |-> {Line(sY), Line(sN)},
     outcome_all |-> {"ok", "fail"}]

EnhancedFaulty ==
    [EnhancedAnswers EXCEPT !.title = {Line(sAb)}, !.id = {Line(scd)},
                            !.players = {Line(<<"2">>)}, !.optimize = {Line(sN)},
                            !.cont = {Line(sY)}, !.confirm = {Line(sY)},
                            !.optall = {Line(sN)}, !.fault = SaveFaults \ {"none"}]

\* the plain answers with an id typed the way a title is
EnhancedTypedId ==
    [EnhancedFaulty EXCEPT !.id = {Line(<<"X">>), Line(<<"-", "c", " ", "D">>)},
                           !.fault = {"none"}]

EnhancedInputs == {EnhancedAnswers, EnhancedFaulty, EnhancedTypedId}

\* the prompts of the image-aware add wizard in the order they are asked
EnhancedOrder ==
    <<"title", "id", "players", "time", "age", "diff", "description", "image", "optimize",
      "outcome", "cont", "rules", "summary", "confirm", "fault", "optall", "outcome_all">>

\* python "v1-add_game - コピー.py": every prompt repeats, so an answer is the
\* sequence of lines typed at it
V1Answers ==
    [title       |-> {<<Line(sAb)>>},
     id          |-> {<<Line(<<>>)>>, <<Line(<<"-", "x">>), Line(scd)>>},
     newid       |-> {<<Line(sab)>>, <<Line(<<"e", "f">>)>>},
     players     |-> {<<Line(<<>>), Line(<<"2">>)>>, <<CtrlC>>},
     time        |-> {<<Line(<<"4", "5">>)>>},
     age         |-> {<<Line(<<"8">>)>>},
     diff        |-> {<<Line(<<"4">>), Line(<<"1">>)>>},
     description |-> {<<Line(sfun)>>},
     image       |-> {<<Line(<<>>)>>},
     rules       |-> {<<Line(<<>>)>>},
     summary     |-> {<<Line(<<>>)>>},
     confirm     |-> {<<Line(<<"Y">>)>>, <<Line(sN)>>},
     fault       |-> {"none"}]

V1Faulty ==
    [V1Answers EXCEPT !.id = {<<Line(scd)>>}, !.players = {<<Line(<<"2">>)>>},
                      !.confirm = {<<Line(sY)>>}, !.fault = {"copy", "write_partial"}]

\* the plain answers with a title of one letter and the suggested id taken
V1ShortTitle ==
    [V1Faulty EXCEPT !.title = {<<Line(<<"X">>)>>}, !.id = {<<Line(<<>>)>>},
                     !.fault = {"none"}]

V1Inputs == {V1Answers, V1Faulty, V1ShortTitle}

V1Order ==
    <<"title", "id", "newid", "players", "time", "age", "diff", "description", "image",
      "rules", "summary", "confirm", "fault">>

\* python manage_games.py --edit [query]
EditAnswers ==
    [arg     |-> {<<>>, sfun},
     query   |-> {Line(<<"1">>), Line(<<>>)},
     select  |-> {<<Line(<<"2">>)>>, <<Line(<<"x">>), Line(<<"1">>)>>},
     menu    |-> {<<Line(<<"0">>)>>,
                  <<Line(<<"1">>), Line(<<"Z", "z">>), Line(<<"0">>)>>,
                  <<Line(<<"5">>), Line(<<"2">>), Line(<<"2">>), Line(<<>>), Line(<<"0">>)>>,
                  <<Line(<<"1">>), CtrlC, Line(<<"3">>), Line(<<"6", "0">>), Line(<<"0">>)>>},
     fault   |-> {"none"}]

EditFaulty ==
    [EditAnswers EXCEPT !.arg = {sfun}, !.select = {<<Line(<<"1">>)>>},
                        !.menu = {<<Line(<<"1">>), Line(<<"Z", "z">>), Line(<<"0">>)>>},
                        !.fault = {"copy", "open", "write_empty"}]

\* the plain answers with no value given at the prompts of the menu
EditNothing ==
    [EditFaulty EXCEPT !.menu = {<<Line(<<"2">>), Line(<<>>), Line(<<"0">>)>>,
                                 <<Line(<<"5">>), Line(<<"9">>), Line(<<"7">>), Line(<<" ">>),
                                   Line(<<"0">>)>>},
                       !.fault = {"none"}]

EditInputs == {EditAnswers, EditFaulty, EditNothing}

EditOrder == <<"query", "select", "menu", "fault">>

\* python manage_games.py --delete [query]
DeleteAnswers ==
    [arg     |-> {<<>>, sab},
     query   |-> {Line(<<"2">>), Line(<<"z", "z">>)},
     select  |-> {<<Line(<<"1">>)>>},
     confirm |-> {Line(syes), Line(<<" ", "Y">>), Line(<<"n", "o">>), CtrlC},
     fault   |-> {"none"},
     cleanup |-> {Line(syes), Line(sY)}]

DeleteFaulty ==
    [DeleteAnswers EXCEPT !.arg = {sab}, !.confirm = {Line(sY)},
                          !.fault = {"copy", "write_partial"}]

DeleteInputs == {DeleteAnswers, DeleteFaulty}

DeleteOrder == <<"query", "select", "confirm", "fault", "cleanup">>

\* the query an edit or a delete looked its record up with: the argument of
\* the command line, or else the line typed at the prompt
QueryOf(a, asked) ==
    IF a.arg # <<>> THEN a.arg
    ELSE IF "query" \in asked /\ ~a.query.int THEN GameManager_safe_input(a.query)
    ELSE <<>>

\* the queries search_games is called with
SearchQueries ==
    {<<>>, <<"A", "B">>, <<"-", "4">>, <<"z", "z">>, <<"F", "u">>, <<"S", "H", "O">>}

\* before any prompt is answered
NoAnswers ==
    [title |-> Unasked, id |-> Unasked, players |-> Unasked, time |-> Unasked,
     age |-> Unasked, diff |-> <<>>, description |-> Unasked, image |-> Unasked,
     optimize |-> Unasked, outcome |-> "ok", cont |-> Unasked, rules |-> Unasked,
     summary |-> Unasked, confirm |-> Unasked, fault |-> "none", optall |-> Unasked,
     outcome_all |-> "ok"]

V1NoAnswers ==
    [title |-> <<>>, id |-> <<>>, newid |-> <<>>, players |-> <<>>, time |-> <<>>,
     age |-> <<>>, diff |-> <<>>, description |-> <<>>, image |-> <<>>, rules |-> <<>>,
     summary |-> <<>>, confirm |-> <<>>, fault |-> "none"]

ManagerNoAnswers ==
    [arg |-> <<>>, query |-> Unasked, select |-> <<>>, menu |-> <<>>, confirm |-> Unasked,
     fault |-> "none", cleanup |-> Unasked]

-----------------------------------------------------------------------------
(* Initial states: what is on the disk when the first command is run.      *)

\* records as the add wizard writes them
Game(id, title, players, extra) ==
    [id |-> Str(id), title |-> Str(title), players |-> Str(players),
     time |-> Str(<<"4", "5">>), age |-> Str(<<"8">>),
     difficulty |-> difficulty_map[<<"1">>][1], difficultyText |-> difficulty_map[<<"1">>][2],
     description |-> Str(sfun),
     rulesUrl |-> Str(SuggestedRules(id)), summaryUrl |-> Str(SuggestedSummary(id))] @@ extra

gAb  == Game(sab, sAb, <<"2">>, [image |-> Str(SuggestedImage(sab))])
gCd  == Game(scd, <<"C", "d">>, <<"2", "-", "4">>, <<>>)
\* a second record with the id of gAb, as a hand-edited file can hold
gAb2 == Game(sab, <<"A", "b", "2">>, <<"3">>, <<>>)

\* a record whose id and title begin with those of gAb
gAbc == Game(<<"a", "b", "c">>, <<"A", "b", "c">>, <<"2">>, <<>>)

\* a record that shows the picture of gAb, as the wizard writes it when ab.jpg
\* is typed at its image prompt
gCdAb == Game(scd, <<"C", "d">>, <<"2", "-", "4">>, [image |-> Str(SuggestedImage(sab))])

\* ab.jpg: 300 KiB, 800x1200
bigImage == Image(300 * 1024, 800, 1200)

\* a square picture over the size limit
squareImage == Image(300 * 1024, 800, 800)

\* the invocations that overlap
Procs == {1, 2}

\* no invocation is under way
Idle == [p \in Procs |-> [pc |-> "idle", kind |-> "none", data |-> EmptyCatalog]]

\* the directories: no files and no ImageMagick; ab.jpg, the rules of ab and
\* ImageMagick; ab.jpg and no ImageMagick
Bare     == [images |-> <<>>, downloads |-> {}, magick |-> "missing"]
Stocked  == [images |-> (SuggestedImage(sab) :> bigImage),
             downloads |-> {Tail(SuggestedRules(sab))}, magick |-> "installed"]
NoMagick == [images |-> (SuggestedImage(sab) :> bigImage), downloads |-> {}, magick |-> "missing"]
Square   == [images |-> (SuggestedImage(sab) :> squareImage), downloads |-> {},
             magick |-> "installed"]

InitDisks ==
    ({Absent, Garbage, EmptyDoc, yaml_dump([games |-> <<>>]), yaml_dump([games |-> <<gAb>>]),
      yaml_dump([games |-> <<gAb, gCd>>]), yaml_dump([games |-> <<gAb, gAb2>>]),
      yaml_dump([games |-> <<gAbc, gAb>>])}
        \X {Bare})
    \cup ({yaml_dump([games |-> <<>>]), yaml_dump([games |-> <<gAb>>]),
           yaml_dump([games |-> <<gCd, gAb>>]), yaml_dump([games |-> <<gAb, gCdAb>>])}
            \X {Stocked})
    \cup ({yaml_dump([games |-> <<>>])} \X {NoMagick, Square})

NoOp == [op |-> "init", ret |-> FALSE, save |-> "none", cancelled |-> FALSE,
         error |-> FALSE, dup |-> FALSE, int |-> FALSE, game |-> <<>>, confirm |-> <<>>,
         query |-> <<>>, chose |-> FALSE, raised |-> FALSE, menu |-> <<>>,
                outcome |-> "none", issues |-> {}]

Init ==
    /\ \E d \in InitDisks :
          /\ file = d[1]
          /\ images = d[2].images
          /\ downloads = d[2].downloads
          /\ magick = d[2].magick
    /\ backups = [t \in Timestamps |-> Absent]
    /\ imgBackup = <<>>
    /\ imgTemp = {}
    /\ now = 0
    /\ ops = 0
    /\ last = NoOp
    /\ procs = Idle

-----------------------------------------------------------------------------
(* Actions: one invocation of a command each.                              *)

\* every way to answer the prompts the image-aware add wizard asks in this state
RECURSIVE EnhancedScripts(_, _, _)
EnhancedScripts(D, a, k) ==
    LET r == run_with_image_optimization(file, backups, images, imgBackup, magick, now, a)
        j == NextAsked(EnhancedOrder, r.asked, k)
    IN  IF j = 0 THEN {a}
        ELSE UNION {EnhancedScripts(D, [a EXCEPT ![EnhancedOrder[j]] = x], j + 1) :
                       x \in D[EnhancedOrder[j]]}

EndEnhanced(a, r) ==
    /\ ~r.blocked
    /\ file' = r.file
    /\ backups' = r.backups
    /\ images' = r.images
    /\ imgBackup' = r.imgBackup
    /\ last' = [op |-> "add", ret |-> r.ret, save |-> r.save,
                cancelled |-> r.cancelled, error |-> r.error, dup |-> r.dup,
                int |-> Interrupted(a, r.asked), game |-> r.game,
                confirm |-> r.confirm, query |-> <<>>, chose |-> FALSE, raised |-> FALSE, menu |-> <<>>,
                outcome |-> "none", issues |-> {}]
    /\ ops' = ops + 1
    /\ UNCHANGED <<imgTemp, downloads, magick, now, procs>>

\* python add_game.py, run to its end
AddEnhanced ==
    /\ ops < MaxOps
    /\ Len(EnhancedGameAdder_load_games_data(file).data.games) < MaxGames
    /\ \E D \in EnhancedInputs : \E a \in EnhancedScripts(D, NoAnswers, 1) :
          EndEnhanced(a, run_with_image_optimization(file, backups, images, imgBackup,
                                                     magick, now, a))

RECURSIVE V1Scripts(_, _, _)
V1Scripts(D, a, k) ==
    LET r == run_add_game(file, backups, images, imgBackup, magick, now, a)
        j == NextAsked(V1Order, r.asked, k)
    IN  IF j = 0 THEN {a}
        ELSE UNION {V1Scripts(D, [a EXCEPT ![V1Order[j]] = x], j + 1) : x \in D[V1Order[j]]}

EndV1(a, r) ==
    /\ ~r.blocked
    /\ file' = r.file
    /\ backups' = r.backups
    /\ last' = [op |-> "add_v1", ret |-> r.ret, save |-> r.save,
                cancelled |-> r.cancelled, error |-> r.error, dup |-> r.dup,
                int |-> r.int, game |-> r.game, confirm |-> r.confirm,
                query |-> <<>>, chose |-> FALSE, raised |-> FALSE, menu |-> <<>>,
                outcome |-> "none", issues |-> {}]
    /\ ops' = ops + 1
    /\ UNCHANGED <<images, imgBackup, imgTemp, downloads, magick, now, procs>>

\* python "v1-add_game - コピー.py", run to its end
AddV1 ==
    /\ ops < MaxOps
    /\ Len(GameAdder_load_games_data(file).data.games) < MaxGames
    /\ \E D \in V1Inputs : \E a \in V1Scripts(D, V1NoAnswers, 1) :
          EndV1(a, run_add_game(file, backups, images, imgBackup, magick, now, a))

RECURSIVE EditScripts(_, _, _)
EditScripts(D, a, k) ==
    LET r == edit_game(file, backups, now, a)
        j == NextAsked(EditOrder, r.asked, k)
    IN  IF j = 0 THEN {a}
        ELSE UNION {EditScripts(D, [a EXCEPT ![EditOrder[j]] = x], j + 1) :
                       x \in D[EditOrder[j]]}

EndEdit(a, r) ==
    /\ ~r.blocked
    /\ file' = r.file
    /\ backups' = r.backups
    /\ last' = [op |-> "edit", ret |-> r.ret, save |-> r.save,
                cancelled |-> r.cancelled, error |-> r.error, dup |-> FALSE,
                int |-> Interrupted(a, r.asked), game |-> r.game, confirm |-> r.confirm,
                query |-> QueryOf(a, r.asked), chose |-> "select" \in r.asked,
                raised |-> FALSE,
                menu |-> IF "menu" \in r.asked
                         THEN [i \in 1..Len(a.menu) |-> GameManager_safe_input(a.menu[i])]
                         ELSE <<>>,
                outcome |-> "none", issues |-> {}]
    /\ ops' = ops + 1
    /\ UNCHANGED <<images, imgBackup, imgTemp, downloads, magick, now, procs>>

\* python manage_games.py --edit [query], run to its end
Edit ==
    /\ ops < MaxOps
    /\ \E D \in EditInputs : \E x \in D.arg :
          \E a \in EditScripts(D, [ManagerNoAnswers EXCEPT !.arg = x], 1) :
             EndEdit(a, edit_game(file, backups, now, a))

RECURSIVE DeleteScripts(_, _, _)
DeleteScripts(D, a, k) ==
    LET r == delete_game(file, backups, images, downloads, now, a)
        j == NextAsked(DeleteOrder, r.asked, k)
    IN  IF j = 0 THEN {a}
        ELSE UNION {DeleteScripts(D, [a EXCEPT ![DeleteOrder[j]] = x], j + 1) :
                       x \in D[DeleteOrder[j]]}

EndDelete(a, r) ==
    /\ ~r.blocked
    /\ file' = r.file
    /\ backups' = r.backups
    /\ images' = r.images
    /\ downloads' = r.downloads
    /\ last' = [op |-> "delete", ret |-> r.ret, save |-> r.save,
                cancelled |-> r.cancelled, error |-> r.error, dup |-> FALSE,
                int |-> Interrupted(a, r.asked), game |-> r.game, confirm |-> r.confirm,
                query |-> QueryOf(a, r.asked), chose |-> "select" \in r.asked,
                raised |-> FALSE, menu |-> <<>>,
                outcome |-> "none", issues |-> {}]
    /\ ops' = ops + 1
    /\ UNCHANGED <<imgBackup, imgTemp, magick, now, procs>>

\* python manage_games.py --delete [query], run to its end
Delete ==
    /\ ops < MaxOps
    /\ \E D \in DeleteInputs : \E x \in D.arg :
          \E a \in DeleteScripts(D, [ManagerNoAnswers EXCEPT !.arg = x], 1) :
             EndDelete(a, delete_game(file, backups, images, downloads, now, a))

\* a call of GameManager.search_games, as the --search and --show branches of
\* main and the lookups of edit and delete make it; an exception ends in
\* the handler of main
Search ==
    /\ ops < MaxOps
    /\ \E q \in SearchQueries :
          LET found == search_games(file, q)
          IN  last' = [NoOp EXCEPT !.op = "search", !.ret = ~found.exc, !.error = found.exc,
                                   !.game = found.matches, !.query = q]
    /\ ops' = ops + 1
    /\ UNCHANGED <<file, backups, images, imgBackup, imgTemp, downloads,
                   magick, now, procs>>

\* a second passes
Tick ==
    /\ now < MaxTime
    /\ now' = now + 1
    /\ UNCHANGED <<file, backups, images, imgBackup, imgTemp, downloads, magick,
                   ops, last, procs>>

Next == AddEnhanced \/ AddV1 \/ Edit \/ Delete \/ Search \/ Tick

Spec == Init /\ [][Next]_vars

-----------------------------------------------------------------------------
(* The image optimizer on its own: the image directory holds at most the   *)
(* one file ab.jpg, which the operator may replace between two commands.   *)

\* the number of commands in a behaviour of ImageSpec
MaxImageOps == 2

\* the image file the commands are about
TheImage == SuggestedImage(sab)

\* image files at, just over and under the three thresholds
ImageSamples ==
    {Image(MaxFileSize, 480, 720), Image(MaxFileSize + 1, 400, 600), Image(1000, 481, 600),
     Image(1000, 400, 721), Image(1000, 400, 600), bigImage,
     Image(1000, 460, 600), Image(1000, 340, 600)}

ImageInit ==
    /\ file = yaml_dump([games |-> <<>>])
    /\ images \in {<<>>} \cup {(TheImage :> img) : img \in ImageSamples}
    /\ magick \in ToolStates
    /\ downloads = {}
    /\ backups = [t \in Timestamps |-> Absent]
    /\ imgBackup = <<>>
    /\ imgTemp = {}
    /\ now = 0
    /\ ops = 0
    /\ last = NoOp
    /\ procs = Idle

\* the operator puts a picture into the image directory as ab.jpg
PutImage ==
    /\ \E img \in ImageSamples : images' = (TheImage :> img)
    /\ last' = [NoOp EXCEPT !.op = "put"]
    /\ UNCHANGED <<file, backups, imgBackup, imgTemp, downloads, magick, now, ops, procs>>

\* a call of ImageOptimizer.needs_optimization on ab.jpg
NeedsOptimization ==
    /\ ops < MaxImageOps
    /\ LET r == needs_optimization(images, TheImage, magick)
       IN  last' = [NoOp EXCEPT !.op = "needs", !.ret = r.val, !.raised = r.exc]
    /\ ops' = ops + 1
    /\ UNCHANGED <<file, backups, images, imgBackup, imgTemp, downloads,
                   magick, now, procs>>

\* a call of ImageOptimizer.optimize_image on ab.jpg
OptimizeImage ==
    /\ ops < MaxImageOps
    /\ \E outcome \in ImageOutcomes :
          LET r == optimize_image(images, imgBackup, TheImage, magick, outcome)
          IN  /\ images' = r.images
              /\ imgBackup' = r.imgBackup
              /\ imgTemp' = imgTemp \cup r.temp
              /\ last' = [NoOp EXCEPT !.op = "optimize", !.ret = r.ret, !.raised = r.exc,
                                       !.outcome = IF r.ran THEN outcome ELSE "none"]
    /\ ops' = ops + 1
    /\ UNCHANGED <<file, backups, downloads, magick, now, procs>>

\* python add_game.py --optimize
OptimizeAll ==
    /\ ops < MaxImageOps
    /\ \E outcome \in TransformOutcomes :
          LET r == optimize_all_images(images, imgBackup, magick, outcome)
          IN  /\ images' = r.images
              /\ imgBackup' = r.imgBackup
              /\ last' = [NoOp EXCEPT !.op = "optimize_all", !.ret = ~r.exc, !.raised = r.exc]
    /\ ops' = ops + 1
    /\ UNCHANGED <<file, backups, imgTemp, downloads, magick, now, procs>>

\* python add_game.py --check: get_image_info and needs_optimization on every
\* image file of the directory
CheckImages ==
    /\ ops < MaxImageOps
    /\ LET exc == \E n \in DOMAIN images :
                     get_image_info(images, n, magick).exc
                        \/ needs_optimization(images, n, magick).exc
       IN  last' = [NoOp EXCEPT !.op = "check", !.ret = ~exc, !.raised = exc]
    /\ ops' = ops + 1
    /\ UNCHANGED <<file, backups, images, imgBackup, imgTemp, downloads,
                   magick, now, procs>>

\* a call of ImageOptimizer.check_image_requirements on ab.jpg
CheckRequirements ==
    /\ ops < MaxImageOps
    /\ LET r == check_image_requirements(images, TheImage, magick)
       IN  last' = [NoOp EXCEPT !.op = "requirements", !.ret = r.valid, !.raised = r.exc,
                                !.issues = r.issues]
    /\ ops' = ops + 1
    /\ UNCHANGED <<file, backups, images, imgBackup, imgTemp, downloads,
                   magick, now, procs>>

ImageNext ==
    \/ PutImage
    \/ NeedsOptimization
    \/ OptimizeImage
    \/ OptimizeAll
    \/ CheckImages
    \/ CheckRequirements

ImageSpec == ImageInit /\ [][ImageNext]_vars

-----------------------------------------------------------------------------
(* Two invocations side by side.  An edit loads the catalog before its     *)
(* menu and saves after it, an add loads it after its confirmation and     *)
(* saves at once; there is no lock, so between the load and the save of    *)
(* one invocation the other may load or save.                              *)

\* what each of the two invocations does to the catalog it has loaded: an
\* edit gives a field of the first record a value, an add appends a record
RaceEdits == [p \in Procs |-> IF p = 1 THEN <<"title", <<"Z", "z">>>>
                               ELSE <<"time", <<"6", "0">>>>]
RaceAdds  == [p \in Procs |-> IF p = 1 THEN gCd ELSE gAbc]

\* a save that reads the file again and applies the change to what it finds
ReloadedBeforeSave(held, f) == GameManager_load_games_data(f).data

\* GameManager.edit_game, EnhancedGameAdder.run_with_image_optimization: the
\* catalog that is saved is the one that was loaded
HeldInMemory(held, f) == held

\* the change of invocation p, made to the catalog data
Mutated(p, kind, data) ==
    IF kind = "edit"
    THEN [games |-> [data.games EXCEPT ![1] = Put(@, RaceEdits[p][1], Str(RaceEdits[p][2]))]]
    ELSE [games |-> Append(data.games, RaceAdds[p])]

RaceInit ==
    /\ file \in {yaml_dump([games |-> <<>>]), yaml_dump([games |-> <<gAb>>])}
    /\ images = <<>>
    /\ downloads = {}
    /\ magick = "missing"
    /\ backups = [t \in Timestamps |-> Absent]
    /\ imgBackup = <<>>
    /\ imgTemp = {}
    /\ now = 0
    /\ ops = 0
    /\ last = NoOp
    /\ procs = Idle

\* invocation p loads the catalog: data = self.load_games_data()
RaceLoad(p) ==
    /\ procs[p].pc = "idle"
    /\ \/ /\ GameManager_load_games_data(file).data.games # <<>>
          /\ procs' = [procs EXCEPT ![p] = [pc |-> "loaded", kind |-> "edit",
                                            data |-> GameManager_load_games_data(file).data]]
       \/ /\ Len(EnhancedGameAdder_load_games_data(file).data.games) < MaxGames
          /\ procs' = [procs EXCEPT ![p] = [pc |-> "loaded", kind |-> "add",
                                            data |-> EnhancedGameAdder_load_games_data(file).data]]
    /\ UNCHANGED <<file, backups, images, imgBackup, imgTemp, downloads, magick, now, ops, last>>

\* invocation p saves the catalog it holds, changed: self.save_games_data(data)
RaceSave(p) ==
    /\ procs[p].pc = "loaded"
    /\ LET sv == SaveBody(file, backups, now,
                          Mutated(p, procs[p].kind, HeldInMemory(procs[p].data, file)), "none")
       IN  /\ file' = sv.file
           /\ backups' = sv.backups
    /\ procs' = [procs EXCEPT ![p].pc = "done"]
    /\ UNCHANGED <<images, imgBackup, imgTemp, downloads, magick, now, ops, last>>

Loads == \E p \in Procs : RaceLoad(p)

Saves == \E p \in Procs : RaceSave(p)

RaceNext == Loads \/ Saves \/ Tick

RaceSpec == RaceInit /\ [][RaceNext]_vars

-----------------------------------------------------------------------------
(* Properties.                                                             *)

\* the records a load of the file f returns
Catalog(f) == GameManager_load_games_data(f).data.games

\* a step that is one invocation of a command
OpStep == ops' = ops + 1

\* the two add scripts
Adds == {"add", "add_v1"}

DistinctIds(games) ==
    \A i, j \in 1..Len(games) : i # j => Get(games[i], "id") # Get(games[j], "id")

\* C1: a catalog whose ids are pairwise distinct still has pairwise distinct
\* ids after any invocation of add (either script), edit or delete
C1_IdsStayDistinct ==
    [][(OpStep /\ DistinctIds(Catalog(file))) => DistinctIds(Catalog(file'))]_vars

\* C2: an add whose id is the id of a record of the catalog is rejected before
\* persistence: no save is performed, the file and the backups are as before.
\* The id is the one of the record the wizard built, or, when it built none,
\* the one it reported as already used
C2_DuplicateRejected ==
    [][(/\ OpStep
        /\ last'.op \in Adds
        /\ IF last'.game = <<>> THEN last'.dup
           ELSE Get(last'.game[1], "id") \in IdsOf(Catalog(file)))
       => (last'.save = "none" /\ file' = file /\ backups' = backups)]_vars

\* C3: a save that succeeds over an existing catalog file leaves the backup
\* named by the current timestamp with the content the file had before the
\* save; a delete of the only record leaves an empty catalog and a backup
\* holding the one-record catalog
C3_BackupHoldsPriorState ==
    [][(OpStep /\ last'.save = "ok" /\ Exists(file))
       => /\ backups'[now] = file
          /\ (last'.op = "delete" /\ Len(Catalog(file)) = 1)
                => (Catalog(file') = <<>> /\ Len(Catalog(backups'[now])) = 1
                    /\ Catalog(backups'[now]) = Catalog(file))]_vars

\* a delete has emptied a one-record catalog and its backup holds the record
C3_Witness ==
    /\ last.op = "delete"
    /\ last.save = "ok"
    /\ Catalog(file) = <<>>
    /\ \E t \in Timestamps : Catalog(backups[t]) = <<last.game[1]>>

\* C4: when save reports failure the catalog file has the content it had
\* before the operation
C4_FailedSaveIsNoOp ==
    [][(OpStep /\ last'.save = "failed") => file' = file]_vars

\* the three copies of load
Loaders(f) ==
    {GameManager_load_games_data(f), EnhancedGameAdder_load_games_data(f),
     GameAdder_load_games_data(f)}

\* the files on the disk that hold or held the catalog
CatalogFiles == {file} \cup {backups[t] : t \in Timestamps}

\* C5: load never raises; it returns {games: []} when the file is absent or is
\* no YAML, and otherwise the records stored in the file, as many and in the
\* order of the file, every field with the text the file has for it
C5_LoadFailsSoft ==
    \A f \in CatalogFiles : \A r \in Loaders(f) :
        /\ ~r.raised
        /\ f.kind \in {"absent", "garbage"} => r.data = [games |-> <<>>]
        /\ f.kind = "doc" =>
              /\ Len(r.data.games) = Len(f.games)
              /\ \A i \in 1..Len(f.games) :
                    /\ DOMAIN r.data.games[i] = DOMAIN f.games[i]
                    /\ \A k \in DOMAIN f.games[i] :
                          r.data.games[i][k].t # "null" =>
                              r.data.games[i][k].v = f.games[i][k].text

\* an add has run on a file that was no YAML: the load gave it the empty
\* catalog, so the file now holds the new record alone, and the backup holds
\* the unreadable text
C5_Witness ==
    /\ last.op \in Adds
    /\ last.save = "ok"
    /\ Catalog(file) = <<last.game[1]>>
    /\ \E t \in Timestamps : backups[t].kind = "garbage"

YesAnswers ==
    {<<a, b, c>> : a \in {"y", "Y"}, b \in {"e", "E"}, c \in {"s", "S"}}
    \cup {<<"y">>, <<"Y">>}

\* C8: a delete changes the catalog file, creates a backup or removes a file
\* only if the answer to the confirmation prompt is, in some case, "yes" or
\* "y"; with any other answer everything on the disk is as before
C8_DeleteNeedsYes ==
    [][(OpStep /\ last'.op = "delete" /\ last'.confirm \notin YesAnswers)
       => /\ file' = file /\ backups' = backups
          /\ images' = images /\ downloads' = downloads
          /\ last'.save = "none" /\ ~last'.ret]_vars

\* a delete has found its record and was answered "no"
C8_Witness ==
    /\ last.op = "delete"
    /\ last.game # <<>>
    /\ last.confirm = <<"n", "o">>
    /\ last.cancelled
    /\ Len(Catalog(file)) = 2

\* C9: an invocation in which the operator pressed Ctrl-C at a prompt ends as
\* cancelled and leaves the catalog file as it was
C9_InterruptCancels ==
    [][(OpStep /\ last'.int) => (last'.cancelled /\ file' = file)]_vars

\* the fields the add wizard requires
RequiredFields ==
    {"id", "title", "players", "time", "age", "difficulty", "difficultyText", "description"}

\* C10: the record an add has persisted has a non-empty text in every
\* required field
C10_RequiredFieldsNonEmpty ==
    (last.op \in Adds /\ last.save = "ok")
       => \A k \in RequiredFields :
             LET val == Get(Catalog(file)[Len(Catalog(file))], k)
             IN  val.t = "str" /\ val.v # <<>>

\* an id as the catalog wants it: lowercase letters, digits and hyphens, no
\* hyphen at either end, two characters or more
WellFormedId(game_id) ==
    /\ Len(game_id) >= 2
    /\ \A i \in 1..Len(game_id) : game_id[i] \in Lowercase \cup Digits \cup {"-"}
    /\ game_id[1] # "-"
    /\ game_id[Len(game_id)] # "-"

\* C11: the id of the record an add (either script) has persisted, typed or
\* taken from the suggestion, is made of lowercase letters, digits and
\* hyphens, has no hyphen at either end and is two characters or longer
C11_PersistedIdWellFormed ==
    (last.op \in Adds /\ last.save = "ok")
       => LET val == Get(Catalog(file)[Len(Catalog(file))], "id")
          IN  val.t = "str" /\ WellFormedId(val.v)

\* the three difficulties: the code and the label that goes with it
DifficultyPairs ==
    {<<Str(<<"b", "e", "g", "i", "n", "n", "e", "r">>), Str(<<"s", "h", "o", "s", "h", "i", "n">>)>>,
     <<Str(<<"i", "n", "t", "e", "r", "m", "e", "d", "i", "a", "t", "e">>),
       Str(<<"k", "e", "i", "k", "e", "n">>)>>,
     <<Str(<<"e", "x", "p", "e", "r", "t">>), Str(<<"e", "k", "i", "s", "u">>)>>}

\* the difficulty and its label in a record
DifficultyOf(game) == <<Get(game, "difficulty"), Get(game, "difficultyText")>>

\* C12: the record an add has persisted carries one of the three pairs of
\* difficulty and label, and a saved edit leaves every record with the pair
\* it had or with one of the three pairs: neither is ever set alone
C12_DifficultyPairsTogether ==
    [][(OpStep /\ last'.save = "ok")
          => /\ last'.op \in Adds
                  => DifficultyOf(Catalog(file')[Len(Catalog(file'))]) \in DifficultyPairs
             /\ last'.op = "edit"
                  => /\ Len(Catalog(file')) = Len(Catalog(file))
                     /\ \A i \in 1..Len(Catalog(file)) :
                           \/ DifficultyOf(Catalog(file')[i]) = DifficultyOf(Catalog(file)[i])
                           \/ DifficultyOf(Catalog(file')[i]) \in DifficultyPairs]_vars

\* an edit has saved a record whose difficulty it changed to intermediate
C12_Witness ==
    /\ last.op = "edit"
    /\ last.save = "ok"
    /\ \E i \in 1..Len(Catalog(file)) :
          Get(Catalog(file)[i], "difficulty")
             = Str(<<"i", "n", "t", "e", "r", "m", "e", "d", "i", "a", "t", "e">>)

\* sub occurs in s as a run of consecutive characters
OccursIn(sub, s) ==
    \E k \in 0..(Len(s) - Len(sub)) : \A j \in 1..Len(sub) : s[k + j] = sub[j]

\* the record game matches the query: the query, lowercased, occurs in the
\* lowercased title, id, description, players or difficultyText
Matches(game, query) ==
    \E k \in {"title", "id", "description", "players", "difficultyText"} :
        /\ k \in DOMAIN game
        /\ OccursIn(Lower(query), Lower(game[k].v))

\* found is the records of games that match the query, in the order of games
ExactlyTheMatches(found, games, query) ==
    LET hits == {i \in 1..Len(games) : Matches(games[i], query)}
    IN  /\ Len(found) = Cardinality(hits)
        /\ \E at \in [1..Len(found) -> hits] :
              /\ \A m, n \in 1..Len(found) : m < n => at[m] < at[n]
              /\ \A m \in 1..Len(found) : found[m] = games[at[m]]

OverLimits(img) == img.size > 204800 \/ img.w > 480 \/ img.h > 720

\* C14 as stated: needs_optimization on an existing image file answers, and
\* answers true exactly when the size is over 204800 bytes or the width over
\* 480 or the height over 720
C14_NeedsIffOverLimits ==
    (last.op = "needs" /\ ImageExists(images, TheImage))
       => (~last.raised /\ last.ret = OverLimits(images[TheImage]))

\* C14 (amended): when ImageMagick is installed, needs_optimization on an
\* existing image file is true exactly when the size is over 204800 bytes or
\* the width over 480 or the height over 720, each of the three sufficing
C14_NeedsIffOverLimitsWithTool ==
    (last.op = "needs" /\ ImageExists(images, TheImage) /\ magick = "installed")
       => (~last.raised /\ last.ret = OverLimits(images[TheImage]))

\* the judgment was made of a picture at all three limits, and was false
C14_Witness ==
    /\ last.op = "needs"
    /\ magick = "installed"
    /\ ImageExists(images, TheImage)
    /\ images[TheImage] = Image(204800, 480, 720)
    /\ ~last.ret

\* C15: where ImageMagick is not installed, needs_optimization on an existing image file
\* does not raise: it skips the dimensions and judges by the size alone
C15_NeedsDegradesWithoutTool ==
    (last.op = "needs" /\ ImageExists(images, TheImage) /\ magick = "missing")
       => (~last.raised /\ last.ret = (images[TheImage].size > 204800))

\* C16: where ImageMagick is absent (no binary, or a version probe that exits
\* non-zero or runs into the timeout), optimize_image reports failure and
\* leaves the image, the backup directory and the temporary files alone
C16_NoToolNoChange ==
    [][(OpStep /\ last'.op = "optimize" /\ magick # "installed")
          => /\ ~last'.ret
             /\ ~last'.raised
             /\ images' = images
             /\ imgBackup' = imgBackup
             /\ imgTemp' = imgTemp]_vars

\* optimize_image has failed on an oversized picture on a machine without
\* ImageMagick, and there is no backup and no temporary file
C16_Witness ==
    /\ last.op = "optimize"
    /\ magick = "missing"
    /\ ~last.ret
    /\ ImageExists(images, TheImage)
    /\ images[TheImage] = bigImage
    /\ imgBackup = <<>>
    /\ imgTemp = {}

\* needs_optimization answers, and answers false, for ab.jpg
NotNeeded ==
    /\ ImageExists(images, TheImage)
    /\ ~needs_optimization(images, TheImage, magick).exc
    /\ ~needs_optimization(images, TheImage, magick).val

\* C17 as stated: optimize_image on a picture for which needs_optimization
\* is false reports success and changes nothing: the picture and the backup
\* directory are as before, whatever the transform would have done
C17_NotNeededIsNoOp ==
    [][(OpStep /\ last'.op = "optimize" /\ NotNeeded)
          => /\ last'.ret
             /\ images' = images
             /\ imgBackup' = imgBackup
             /\ imgTemp' = imgTemp]_vars

\* C17 (amended): where ImageMagick is installed, optimize_image on a picture
\* for which needs_optimization is false reports success and changes nothing
C17_NotNeededIsNoOpWithTool ==
    [][(OpStep /\ last'.op = "optimize" /\ NotNeeded /\ magick = "installed")
          => /\ last'.ret
             /\ images' = images
             /\ imgBackup' = imgBackup
             /\ imgTemp' = imgTemp]_vars

\* optimize_image has reported success on a picture within the limits, which
\* is as it was, after an earlier transform of ab.jpg had left a backup
C17_Witness ==
    /\ last.op = "optimize"
    /\ last.ret
    /\ magick = "installed"
    /\ ImageExists(images, TheImage)
    /\ images[TheImage] = Image(204800, 480, 720)
    /\ imgBackup = (TheImage :> bigImage)

\* C18: after a call of optimize_image that has changed ab.jpg, the first or
\* a later one, the backup directory holds an ab.jpg that is the picture as
\* it was just before the call
C18_BackupIsThePriorPicture ==
    [][(OpStep /\ last'.op = "optimize" /\ ImageExists(images, TheImage) /\ images' # images)
          => /\ ImageExists(imgBackup', TheImage)
             /\ imgBackup'[TheImage] = images[TheImage]]_vars

\* the invocations of a command through main, of any of the three scripts
Commands == {"add", "add_v1", "edit", "delete", "search", "optimize_all", "check"}

\* C19: no exception leaves main, whatever the command: what goes wrong
\* inside a command is caught and reported
C19_NothingLeavesMain ==
    last.op \in Commands => ~last.raised

\* the records of games whose id or title is the query, letter case aside
ExactHits(games, query) ==
    {i \in 1..Len(games) :
        \/ Lower(Get(games[i], "id").v) = Lower(query)
        \/ Lower(Get(games[i], "title").v) = Lower(query)}

\* C20: an edit or a delete whose query is the id or the title of a record,
\* letter case aside, takes that record as its target and does not ask the
\* operator to choose, whatever other records the query occurs in
C20_ExactMatchIsTheTarget ==
    [][(OpStep /\ last'.op \in {"edit", "delete"} /\ last'.query # <<>>
           /\ ExactHits(Catalog(file), last'.query) # {})
          => /\ ~last'.chose
             /\ last'.game # <<>>
             /\ \E i \in ExactHits(Catalog(file), last'.query) :
                   Get(last'.game[1], "id") = Get(Catalog(file)[i], "id")]_vars

\* the lines typed in the edit menu, from the i-th on, gave some field a
\* value: a number of the menu followed by a non-empty line, or the number
\* of the difficulty followed by 1, 2 or 3
RECURSIVE ValueGiven(_, _)
ValueGiven(menu, i) ==
    IF i >= Len(menu) THEN FALSE
    ELSE IF menu[i] \in {<<"1">>, <<"2">>, <<"3">>, <<"4">>, <<"6">>, <<"7">>, <<"8">>, <<"9">>}
    THEN menu[i + 1] # <<>> \/ ValueGiven(menu, i + 2)
    ELSE IF menu[i] = <<"5">>
    THEN menu[i + 1] \in {<<"1">>, <<"2">>, <<"3">>} \/ ValueGiven(menu, i + 2)
    ELSE IF menu[i] = <<"0">> THEN FALSE
    ELSE ValueGiven(menu, i + 1)

\* C21: an edit that has reached its menu saves (writes the catalog file and
\* the backup of what it was) exactly when some field was given a value
\* before the menu was left with 0; when none was, the file and the backups
\* are as they were
C21_EditSavesIffValueGiven ==
    [][(OpStep /\ last'.op = "edit" /\ last'.menu # <<>>)
          => /\ (last'.save # "none") <=> ValueGiven(last'.menu, 1)
             /\ last'.save = "none" => (file' = file /\ backups' = backups)
             /\ last'.save = "ok"
                  => (Catalog(file') # <<>> /\ backups'[now] = file)]_vars

\* an edit in which every value prompt was left empty has ended without a
\* save
C21_Witness ==
    /\ last.op = "edit"
    /\ last.menu = <<<<"2">>, <<>>, <<"0">>>>
    /\ last.save = "none"
    /\ last.ret
    /\ \A t \in Timestamps : backups[t] = Absent

\* the fields that the lines typed in the edit menu, from the i-th on, gave
\* a value: the label of the difficulty goes with the difficulty
RECURSIVE FieldsGiven(_, _)
FieldsGiven(menu, i) ==
    IF i >= Len(menu) THEN {}
    ELSE IF menu[i] \in {<<"1">>, <<"2">>, <<"3">>, <<"4">>, <<"6">>, <<"7">>, <<"8">>, <<"9">>}
    THEN (IF menu[i + 1] # <<>> THEN {fields[ParseInt(menu[i])]} ELSE {})
            \cup FieldsGiven(menu, i + 2)
    ELSE IF menu[i] = <<"5">>
    THEN (IF menu[i + 1] \in {<<"1">>, <<"2">>, <<"3">>}
          THEN {"difficulty", "difficultyText"} ELSE {})
            \cup FieldsGiven(menu, i + 2)
    ELSE IF menu[i] = <<"0">> THEN {}
    ELSE FieldsGiven(menu, i + 1)

\* C22: a saved edit changes, in the record the operator has chosen, the
\* fields that were given a value and nothing else: the other keys of that
\* record, the other records, and the length and the order of the catalog
\* are as they were loaded
C22_EditChangesOnlyGivenFields ==
    [][(OpStep /\ last'.op = "edit" /\ last'.save = "ok")
          => /\ Len(Catalog(file')) = Len(Catalog(file))
             /\ \A i \in 1..Len(Catalog(file)) :
                   IF Catalog(file)[i] = last'.game[1]
                   THEN /\ DOMAIN Catalog(file')[i] \subseteq
                              DOMAIN Catalog(file)[i] \cup FieldsGiven(last'.menu, 1)
                        /\ \A k \in DOMAIN Catalog(file)[i] \ FieldsGiven(last'.menu, 1) :
                              /\ k \in DOMAIN Catalog(file')[i]
                              /\ Catalog(file')[i][k] = Catalog(file)[i][k]
                   ELSE Catalog(file')[i] = Catalog(file)[i]]_vars

\* C23: a backup of a picture is made only when the backup directory has no
\* file of its name, and is then the picture as it was; a backup that exists
\* is never changed or removed by a later call
C23_BackupMadeOnce ==
    [][/\ \A n \in DOMAIN imgBackup :
             n \in DOMAIN imgBackup' /\ imgBackup'[n] = imgBackup[n]
       /\ \A n \in DOMAIN imgBackup' \ DOMAIN imgBackup :
             /\ last'.op \in {"add", "optimize", "optimize_all"}
             /\ ImageExists(images, n)
             /\ imgBackup'[n] = images[n]]_vars

\* a second picture put as ab.jpg has been transformed, and the backup is
\* still the first picture
C23_Witness ==
    /\ last.op = "optimize"
    /\ last.ret
    /\ ImageExists(images, TheImage)
    /\ images[TheImage] = Resized(Image(1000, 481, 600))
    /\ imgBackup = (TheImage :> bigImage)

\* C24: when the transform ends with a non-zero exit, without an output
\* file or in the timeout, optimize_image reports failure, the picture is as
\* it was and no temporary file is left; the picture is replaced only by a
\* transform that has succeeded
C24_FailedTransformLeavesPicture ==
    [][(OpStep /\ last'.op = "optimize")
          => /\ last'.outcome \in {"fail", "timeout", "no_output"}
                  => (~last'.ret /\ images' = images /\ imgTemp' = {})
             /\ images' # images => (last'.outcome = "ok" /\ last'.ret)]_vars

\* the transform of an oversized ab.jpg has run into the timeout: the
\* picture is as it was, backed up, and no temporary file is left
C24_Witness ==
    /\ last.op = "optimize"
    /\ last.outcome = "timeout"
    /\ ~last.ret
    /\ ImageExists(images, TheImage)
    /\ images[TheImage] = bigImage
    /\ imgBackup = (TheImage :> bigImage)
    /\ imgTemp = {}

\* C25: with ImageMagick installed, check_image_requirements on an existing
\* picture flags the aspect ratio exactly when width / height differs from
\* 0.75 by more than 0.1 (10 |4 w - 3 h| > 4 h), flags the size exactly when
\* it is over 204800 bytes, and passes exactly when it flags nothing
C25_RequirementsAsStated ==
    (last.op = "requirements" /\ ImageExists(images, TheImage) /\ magick = "installed")
       => /\ ~last.raised
          /\ ("aspect" \in last.issues)
                <=> 10 * Abs(4 * images[TheImage].w - 3 * images[TheImage].h)
                       > 4 * images[TheImage].h
          /\ ("size" \in last.issues) <=> images[TheImage].size > 204800
          /\ last.ret <=> last.issues = {}

\* the change of invocation p is in the catalog games
Present(p, kind, games) ==
    IF kind = "edit"
    THEN games # <<>> /\ Get(games[1], RaceEdits[p][1]) = Str(RaceEdits[p][2])
    ELSE \E i \in 1..Len(games) : games[i] = RaceAdds[p]

\* the step is the save of invocation p
SaveOf(p) == procs[p].pc = "loaded" /\ procs'[p].pc = "done"

\* C26: of two invocations that overlap the later save wins.  The catalog a
\* save leaves is the catalog that invocation had loaded with its own change;
\* a change the other invocation has saved since that load is not in it, and
\* is found in the backup this save has made
C26_LaterSaveWins ==
    [][\A p \in Procs : SaveOf(p) =>
          /\ Catalog(file') = Mutated(p, procs[p].kind, procs[p].data).games
          /\ \A q \in Procs \ {p} :
                (procs[q].pc = "done" /\ ~Present(q, procs[q].kind, procs[p].data.games))
                   => /\ ~Present(q, procs[q].kind, Catalog(file'))
                      /\ Present(q, procs[q].kind, Catalog(backups'[now]))]_vars

\* both invocations have saved, the second after the first and from a load
\* made before it: the record the first has added is in a backup only
C26_Witness ==
    /\ procs[1].pc = "done"
    /\ procs[2].pc = "done"
    /\ procs[1].kind = "add"
    /\ procs[2].kind = "edit"
    /\ ~Present(1, "add", Catalog(file))
    /\ Present(2, "edit", Catalog(file))
    /\ \E t \in Timestamps : Present(1, "add", Catalog(backups[t]))

\* C27: when the catalog file exists but cannot be parsed, an add by the
\* image-aware script that saves leaves a catalog file holding only the new
\* record, and the backup named by the current timestamp holds the
\* unparseable content unchanged
C27_AddOverUnparseable ==
    [][(OpStep /\ last'.op = "add" /\ last'.save = "ok" /\ file.kind = "garbage")
       => /\ file' = yaml_dump([games |-> last'.game])
          /\ Len(last'.game) = 1
          /\ Len(Catalog(file')) = 1
          /\ backups'[now] = file]_vars

\* an add has replaced an unparseable file and a backup holds the old text
C27_Witness ==
    /\ last.op = "add"
    /\ last.save = "ok"
    /\ Len(Catalog(file)) = 1
    /\ \E t \in Timestamps : backups[t] = Garbage

\* C28: a record the image-aware add script has saved names a picture only
\* when that file was in the images directory and, as it stood when the wizard
\* accepted it, meets check_image_requirements
C28_ImageFieldMeansRequirementsMet ==
    [][(OpStep /\ last'.op = "add" /\ last'.save = "ok"
          /\ "image" \in DOMAIN last'.game[1])
       => /\ ImageExists(images, last'.game[1].image.v)
          /\ check_image_requirements(images', last'.game[1].image.v, magick).valid]_vars

\* C29: a backup file, once made, keeps its content: no later save, in the
\* same clock second or in another, overwrites or removes it, and each save
\* over an existing catalog file makes a backup that was not there before
C29_BackupsAreNeverOverwritten ==
    [][/\ \A t \in Timestamps : backups[t] # Absent => backups'[t] = backups[t]
       /\ (backups' # backups) => backups[now] = Absent]_vars

\* the files the records of a catalog name in image, rulesUrl and summaryUrl
ReferencedImages(games) ==
    {Get(games[i], "image").v : i \in {i \in 1..Len(games) : Truthy(Get(games[i], "image"))}}

ReferencedDownloads(games) ==
    UNION {{Tail(Get(games[i], k).v) :
               k \in {k \in {"rulesUrl", "summaryUrl"} : Truthy(Get(games[i], k))}} :
           i \in 1..Len(games)}

\* C30: a delete removes files only when the removal of the record has been
\* saved, and never a file that a record still in the catalog names in its
\* image, rulesUrl or summaryUrl
C30_CleanupSparesReferencedFiles ==
    [][(OpStep /\ last'.op = "delete" /\ (images' # images \/ downloads' # downloads))
       => /\ last'.save = "ok"
          /\ (DOMAIN images \ DOMAIN images') \cap ReferencedImages(Catalog(file')) = {}
          /\ (downloads \ downloads') \cap ReferencedDownloads(Catalog(file')) = {}]_vars

====
